---- MODULE Spec2Model ----
(***************************************************************************)
(* Model of setup-nimskull: the release searcher (src/searcher.ts) and the *)
(* action's main pipeline (setupCompiler, downloadAndExtractCompiler).     *)
(*                                                                         *)
(* The specifications share the variables:                                 *)
(*   SpecScan    findVersion over a paginated release feed                 *)
(*   SpecMatch   tripletMatchesSystem over triplets and hosts              *)
(*   Spec        setupCompiler, called repeatedly over a persistent cache  *)
(***************************************************************************)
EXTENDS Integers, Sequences, FiniteSets, TLC

\* ------------------------------------------------------------------ bounds
\* Longest release feed considered.
MaxFeed == 6
\* The page-request counter saturates here (the scanner itself is unbounded).
MaxRequests == 3
\* Number of setupCompiler invocations against the same cache.
MaxCalls == 2
\* Largest number of top-level entries of an extracted archive.
MaxEntries == 2

\* ------------------------------------------------------- program constants
\* releases(before: $startCursor, last: 5)
PageSize == 5
SupportedManifestVersion == 0
\* HttpCodes.OK
HttpOK == 200
ToolName == "nimskull"

Null == "null"
\* A null cursor (cursors are positions, counted from 1).
NullCursor == 0
\* fs.readdir has not run.
NoFiles == -1
NoEntry == [present |-> FALSE]
NoArchive == [present |-> FALSE]
NoBinary == [name |-> Null, target |-> <<"">>]
\* No value was thrown.  A thrown value records whether it is a string
\* primitive (throw `...`) or an Error object of a library.
NoError == [kind |-> Null, detail |-> Null, string |-> FALSE]
\* core.setOutput has not run: no output name is set.
NoOutputs == [n \in {} |-> Null]
\* getDownloadUrl has not parsed a manifest.
NoManifest == [present |-> FALSE]
\* core.setFailed has not run.
NoFailure == [called |-> FALSE]
\* The message property of a value that has none.
NoMessage == [defined |-> FALSE]

\* ------------------------------------------------------------------ semver
\* Release names of the feed.  "nightly" is not a semver version.
Tags == {"0.1.0-dev.1", "0.1.0-dev.2", "0.1.0-dev.3", "0.1.0", "0.2.0-dev.1", "0.2.0-dev.2",
         "nightly"}

Invalid == [valid |-> FALSE]

SemVer(ma, mi, pa, pre) == [valid |-> TRUE, major |-> ma, minor |-> mi, patch |-> pa, pre |-> pre]

\* new SemVer(string): the numeric prerelease identifier that follows "dev" is
\* kept; the constant alphanumeric identifier "dev" compares equal everywhere.
ParseVersion(s) ==
  CASE s = "0.1.0-dev.1" -> SemVer(0, 1, 0, <<1>>)
    [] s = "0.1.0-dev.2" -> SemVer(0, 1, 0, <<2>>)
    [] s = "0.1.0-dev.3" -> SemVer(0, 1, 0, <<3>>)
    [] s = "0.1.0"       -> SemVer(0, 1, 0, <<>>)
    [] s = "0.2.0-dev.1" -> SemVer(0, 2, 0, <<1>>)
    [] s = "0.2.0-dev.2" -> SemVer(0, 2, 0, <<2>>)
    [] s = "0.0.0"       -> SemVer(0, 0, 0, <<>>)
    [] s = "1.0.0"       -> SemVer(1, 0, 0, <<>>)
    [] OTHER             -> Invalid

compareIdentifiers(a, b) == IF a < b THEN -1 ELSE IF a > b THEN 1 ELSE 0

RECURSIVE comparePreFrom(_, _, _)
comparePreFrom(p, q, i) ==
  IF i > Len(p) /\ i > Len(q) THEN 0
  ELSE IF i > Len(q) THEN 1
  ELSE IF i > Len(p) THEN -1
  ELSE IF p[i] = q[i] THEN comparePreFrom(p, q, i + 1)
  ELSE compareIdentifiers(p[i], q[i])

\* SemVer.comparePre: a version without prerelease is greater than one with.
comparePre(a, b) ==
  IF a.pre # <<>> /\ b.pre = <<>> THEN -1
  ELSE IF a.pre = <<>> /\ b.pre # <<>> THEN 1
  ELSE IF a.pre = <<>> /\ b.pre = <<>> THEN 0
  ELSE comparePreFrom(a.pre, b.pre, 1)

compareMain(a, b) ==
  IF a.major # b.major THEN compareIdentifiers(a.major, b.major)
  ELSE IF a.minor # b.minor THEN compareIdentifiers(a.minor, b.minor)
  ELSE compareIdentifiers(a.patch, b.patch)

compare(a, b) == IF compareMain(a, b) # 0 THEN compareMain(a, b) ELSE comparePre(a, b)

cmp(a, op, b) ==
  CASE op = "="  -> compare(a, b) = 0
    [] op = ">"  -> compare(a, b) > 0
    [] op = ">=" -> compare(a, b) >= 0
    [] op = "<"  -> compare(a, b) < 0
    [] op = "<=" -> compare(a, b) <= 0

Comparator(op, v) == [op |-> op, semver |-> ParseVersion(v)]

\* The version specifications a caller passes (input nimskull-version).
Ranges == {"*", "0.1.0-dev.1", ">0.1.0-dev.1 <0.1.0-dev.3", ">0.0.0", ">=1.0.0"}

\* new Range(string).set: one conjunction of comparators; "*" has none (ANY).
ParseRange(r) ==
  CASE r = "*"                         -> {}
    [] r = ">0.1.0-dev.1 <0.1.0-dev.3" -> {Comparator(">", "0.1.0-dev.1"), Comparator("<", "0.1.0-dev.3")}
    [] r = ">0.0.0"                    -> {Comparator(">", "0.0.0")}
    [] r = ">=1.0.0"                   -> {Comparator(">=", "1.0.0")}
    [] OTHER                           -> {Comparator("=", r)}

\* Range.test / testSet of the semver package.
testSet(set, version, includePrerelease) ==
  /\ \A c \in set : cmp(version, c.op, c.semver)
  /\ \/ version.pre = <<>>
     \/ includePrerelease
     \/ \E c \in set : /\ c.semver.pre # <<>>
                       /\ c.semver.major = version.major
                       /\ c.semver.minor = version.minor
                       /\ c.semver.patch = version.patch

\* Mutant: a version that does not parse satisfies every range.
semverSatisfiesUnparsed(version, r, includePrerelease) ==
  \/ ~ParseVersion(version).valid
  \/ testSet(ParseRange(r), ParseVersion(version), includePrerelease)

\* semver.satisfies(version, range, {includePrerelease}): Range.test catches
\* the exception of new SemVer(version) and returns false, so an unparseable
\* version satisfies nothing.
semverSatisfies(version, r, includePrerelease) ==
  /\ ParseVersion(version).valid
  /\ testSet(ParseRange(r), ParseVersion(version), includePrerelease)

\* if (semver.satisfies(releaseName, range, { includePrerelease: true }))
satisfiesNoPrerelease(releaseName, r) == semverSatisfies(releaseName, r, FALSE)

satisfies(releaseName, r) == semverSatisfies(releaseName, r, TRUE)

\* -------------------------------------------------------------------- feed
Min(a, b) == IF a < b THEN a ELSE b
Max(a, b) == IF a > b THEN a ELSE b

Reverse(s) == [i \in 1..Len(s) |-> s[Len(s) + 1 - i]]

Injective(s) == \A i, j \in 1..Len(s) : i # j => s[i] # s[j]

\* Release feeds, listed in creation order (oldest first), names distinct.
Feeds == {s \in UNION {[1..n -> Tags] : n \in 0..Min(MaxFeed, Cardinality(Tags))} : Injective(s)}


\* ------------------------------------------------------------ triplet data
\* Segments of target triplets, as String.split('-') returns them.
ArchSegments == {"x86_64", "aarch64", "armv7", "riscv64", ""}
VendorSegments == {"pc", "apple", "unknown"}
OsSegments == {"darwin", "macosx", "linux", "windows", "freebsd"}
AbiSegments == {"gnu", "musl", "gnueabihf"}

Triplets ==
  {<<a>> : a \in ArchSegments}
  \cup {<<a, v>> : a \in ArchSegments, v \in VendorSegments}
  \cup {<<a, o>> : a \in ArchSegments, o \in OsSegments}
  \cup {<<a, v, o>> : a \in ArchSegments, v \in VendorSegments, o \in OsSegments}
  \cup {<<a, o, e>> : a \in ArchSegments, o \in OsSegments, e \in AbiSegments}
  \cup {<<a, v, o, e>> : a \in ArchSegments, v \in VendorSegments, o \in OsSegments, e \in AbiSegments}

\* os.arch() and os.platform() of the runner.
Hosts == [arch : {"arm", "arm64", "x64", "ia32"}, platform : {"linux", "darwin", "win32"}]

\* The characters of a segment, for the regular-expression tests.
Chars(s) ==
  CASE s = "x86_64"    -> <<"x", "8", "6", "_", "6", "4">>
    [] s = "aarch64"   -> <<"a", "a", "r", "c", "h", "6", "4">>
    [] s = "armv7"     -> <<"a", "r", "m", "v", "7">>
    [] s = "arm"       -> <<"a", "r", "m">>
    [] s = "riscv64"   -> <<"r", "i", "s", "c", "v", "6", "4">>
    [] s = "pc"        -> <<"p", "c">>
    [] s = "apple"     -> <<"a", "p", "p", "l", "e">>
    [] s = "unknown"   -> <<"u", "n", "k", "n", "o", "w", "n">>
    [] s = "darwin"    -> <<"d", "a", "r", "w", "i", "n">>
    [] s = "macosx"    -> <<"m", "a", "c", "o", "s", "x">>
    [] s = "linux"     -> <<"l", "i", "n", "u", "x">>
    [] s = "windows"   -> <<"w", "i", "n", "d", "o", "w", "s">>
    [] s = "freebsd"   -> <<"f", "r", "e", "e", "b", "s", "d">>
    [] s = "gnu"       -> <<"g", "n", "u">>
    [] s = "musl"      -> <<"m", "u", "s", "l">>
    [] s = "gnueabihf" -> <<"g", "n", "u", "e", "a", "b", "i", "h", "f">>
    [] OTHER           -> <<>>

\* String.match(/needle/): the needle occurs somewhere in the segment.
Matches(s, needle) ==
  LET h == Chars(s)
      n == Chars(needle)
  IN  \E i \in 0..(Len(h) - Len(n)) : SubSeq(h, i + 1, i + Len(n)) = n

Undefined == "undefined"

\* splitted[i] of a JavaScript array (1-based here): undefined past the end.
At(splitted, i) == IF i <= Len(splitted) THEN splitted[i] ELSE Undefined

\* JavaScript truthiness of a string-or-undefined value.
Truthy(x) == x # Undefined /\ x # ""

\* --------------------------------------------------- tripletMatchesSystem
\* Mutant: a host architecture the switch does not know lets the triplet pass.
archMatchesUnknownHost(arch, seg) ==
  CASE arch = "arm"   -> Matches(seg, "arm")
    [] arch = "arm64" -> seg = "aarch64"
    [] arch = "x64"   -> seg = "x86_64"
    [] OTHER          -> TRUE

\* switch (os.arch()): the architecture gate.
archMatches(arch, seg) ==
  CASE arch = "arm"   -> Matches(seg, "arm")
    [] arch = "arm64" -> seg = "aarch64"
    [] arch = "x64"   -> seg = "x86_64"
    [] OTHER          -> FALSE

\* Mutant: the 'pc' case does not look at the platform.
vendorRejectsAppleOnly(vendor, platform) == vendor = "apple" /\ platform # "darwin"

\* switch (splitted[scanPos]) "Process vendor": TRUE when the vendor rejects.
vendorRejects(vendor, platform) ==
  \/ vendor = "pc" /\ platform = "darwin"
  \/ vendor = "apple" /\ platform # "darwin"

\* scanPos after the vendor switch: only 'pc' and 'apple' are consumed.
scanPosAfterVendor(splitted) == IF At(splitted, 2) \in {"pc", "apple"} THEN 3 ELSE 2

\* "Process environment (if any), accept only the version using GNU ABI".
envRejects(env) == Truthy(env) /\ ~Matches(env, "gnu")

\* Mutant: an operating system the switch does not know rejects.
osRejectsUnrecognised(splitted, scanPos, platform) ==
  LET o == At(splitted, scanPos)
  IN  \/ o \in {"darwin", "macosx"} /\ platform # "darwin"
      \/ o = "linux" /\ (platform # "linux" \/ envRejects(At(splitted, scanPos + 1)))
      \/ o = "windows" /\ (platform # "win32" \/ envRejects(At(splitted, scanPos + 1)))
      \/ o \notin {"darwin", "macosx", "linux", "windows", Undefined}

\* switch (splitted[scanPos]) "Process OS": TRUE when the OS (or its
\* environment) rejects.
osRejects(splitted, scanPos, platform) ==
  LET o == At(splitted, scanPos)
  IN  \/ o \in {"darwin", "macosx"} /\ platform # "darwin"
      \/ o = "linux" /\ (platform # "linux" \/ envRejects(At(splitted, scanPos + 1)))
      \/ o = "windows" /\ (platform # "win32" \/ envRejects(At(splitted, scanPos + 1)))

\* tripletMatchesSystem(triplet) on the host (os.arch(), os.platform()).
\* The triplet is given split on '-'; the empty string splits to <<"">>.
tripletMatchesSystem(splitted, h) ==
  IF splitted = <<"">> THEN FALSE
  ELSE IF ~Truthy(splitted[1]) THEN FALSE
  ELSE IF ~archMatches(h.arch, splitted[1]) THEN FALSE
  ELSE IF 1 < Len(splitted)
       THEN /\ ~vendorRejects(At(splitted, 2), h.platform)
            /\ ~osRejects(splitted, scanPosAfterVendor(splitted), h.platform)
       ELSE TRUE


\* ------------------------------------------------------------------- state
VARIABLES
  feed,            \* the repository's releases, oldest first
  order,           \* order of the releases connection when no orderBy is given
  host,            \* os.arch(), os.platform()
  cache,           \* the tool cache: version -> cached directory content, or Null
  pc,              \* where the running invocation stands
  calls,           \* setupCompiler invocations started
  range, update,   \* the arguments of the running invocation
  installDir, release, targetBinary, url, downloaded, extracted, files,
  manifest,        \* the release manifest getDownloadUrl parsed, or NoManifest
  tripletChecks,   \* calls of tripletMatchesSystem by the running invocation
  lookups,         \* urlForAsset queries of the running invocation, with their outcome
  error,           \* the value thrown out of setupCompiler
  failureMessage,  \* what setup() passed to core.setFailed
  outputs,         \* core.setOutput: output name -> value
  addedPath,       \* core.addPath: the directories prepended to PATH
  hasPreviousPage, startCursor, releaseEdges, pos, found,
  pageRequests,    \* graphql page queries of the running findVersion (saturating)
  yielded,         \* the release names the generator yielded (first MaxRequests pages)
  netCalls,        \* network requests of the running invocation (saturating)
  cacheAtStart,    \* the cache when the running invocation began
  storedTag,       \* the version the running invocation stored, or Null
  resolved,        \* findVersion invocations over all invocations
  stores,          \* tc.cacheDir calls over all invocations
  succeeded,       \* invocations that ran to their end
  triplet, matchResult

envVars == <<feed, order, host>>
scanVars == <<hasPreviousPage, startCursor, releaseEdges, pos, found, pageRequests, yielded>>
callVars == <<calls, range, update, cacheAtStart>>
stageVars == <<installDir, release, targetBinary, manifest, tripletChecks, lookups, url,
               downloaded, extracted, files, outputs, addedPath>>
matchVars == <<triplet, matchResult>>
log == <<resolved, stores, succeeded>>
vars == <<envVars, cache, pc, callVars, stageVars, error, failureMessage, scanVars, netCalls, storedTag, log, matchVars>>

\* ------------------------------------------------------------ release feed
\* The releases connection in the order the server lists it.
Connection(f, o) == IF o = "ASC" THEN f ELSE Reverse(f)

\* releases(before: $startCursor, last: 5): the last PageSize edges before
\* the cursor (the end of the connection for a null cursor), in connection
\* order.  A cursor is the position of an edge in the connection.
PageEnd(conn, before) == IF before = NullCursor THEN Len(conn) ELSE before - 1

PageStart(conn, before) == Max(1, PageEnd(conn, before) - PageSize + 1)

PageEdges(conn, before) == SubSeq(conn, PageStart(conn, before), PageEnd(conn, before))

PageInfo(conn, before) ==
  [startCursor |-> IF PageEdges(conn, before) = <<>> THEN NullCursor ELSE PageStart(conn, before),
   hasPreviousPage |-> PageEdges(conn, before) # <<>> /\ PageStart(conn, before) > 1]

\* The creation rank of a release name in the feed (larger is newer).
Created(f, name) == CHOOSE i \in 1..Len(f) : f[i] = name

\* ------------------------------------------------------------- getReleases
\* "let startCursor = null" opens every iteration of the do-while loop, so
\* the value assigned from pageInfo at the end of the previous iteration is
\* out of scope: the query variable is the fresh null.
queryCursor(assigned) == NullCursor

Saturate(n, cap) == Min(n + 1, cap)

\* One iteration of the do-while loop up to the for-of loop: the graphql
\* query for a page.  The query may reject (transport failure).
RequestPage ==
  /\ pc = "fv_request"
  /\ \E ok \in BOOLEAN :
       IF ok
       THEN LET conn == Connection(feed, order)
                before == queryCursor(startCursor)
            IN  /\ releaseEdges' = PageEdges(conn, before)
                /\ startCursor' = PageInfo(conn, before).startCursor
                /\ hasPreviousPage' = PageInfo(conn, before).hasPreviousPage
                /\ pos' = 1
                /\ pc' = "fv_iterate"
                /\ UNCHANGED <<error, failureMessage>>
       ELSE /\ pc' = "fv_failed"
            /\ error' = [kind |-> "TransportError", detail |-> "graphql", string |-> FALSE]
            /\ UNCHANGED failureMessage
            /\ UNCHANGED <<releaseEdges, startCursor, hasPreviousPage, pos>>
  /\ pageRequests' = Saturate(pageRequests, MaxRequests)
  /\ netCalls' = Saturate(netCalls, MaxRequests + 3)
  /\ UNCHANGED <<envVars, cache, callVars, stageVars, found, yielded, storedTag, log, matchVars>>

\* Mutant: the includePrerelease option is dropped.
matchesRangeDefaultOptions(releaseName, r) == satisfiesNoPrerelease(releaseName, r)

\* findVersion's loop body on the next yielded release name.
matchesRange(releaseName, r) == satisfies(releaseName, r)

\* What the consumer does after a release satisfied the range: "return
\* releaseName" closes the generator, which requests nothing further.
afterMatch(more) == "fv_return"

NextRelease ==
  /\ pc = "fv_iterate"
  /\ pos <= Len(releaseEdges)
  /\ yielded' = IF pageRequests < MaxRequests THEN Append(yielded, releaseEdges[pos]) ELSE yielded
  /\ IF matchesRange(releaseEdges[pos], range)
     THEN /\ found' = releaseEdges[pos]
          /\ pc' = afterMatch(hasPreviousPage)
          /\ pos' = pos
     ELSE /\ pos' = pos + 1
          /\ UNCHANGED <<found, pc>>
  /\ UNCHANGED <<envVars, cache, callVars, stageVars, error, failureMessage, hasPreviousPage, startCursor,
                 releaseEdges, pageRequests, netCalls, storedTag, log, matchVars>>

\* The for-of loop over the page is exhausted: "while (hasPreviousPage)", and
\* after the last page findVersion returns null.
PageDone ==
  /\ pc = "fv_iterate"
  /\ pos > Len(releaseEdges)
  /\ IF hasPreviousPage
     THEN pc' = "fv_request" /\ found' = found
     ELSE pc' = "fv_return" /\ found' = Null
  /\ UNCHANGED <<envVars, cache, callVars, stageVars, error, failureMessage, hasPreviousPage, startCursor,
                 releaseEdges, pos, pageRequests, yielded, netCalls, storedTag, log, matchVars>>

\* ---------------------------------------------------------------- SpecScan
Idle ==
  /\ cache = [t \in Tags |-> NoEntry]
  /\ calls = 0
  /\ range = Null /\ update = FALSE
  /\ installDir = Null /\ release = Null /\ targetBinary = NoBinary /\ url = Null
  /\ manifest = NoManifest /\ tripletChecks = 0 /\ lookups = <<>>
  /\ downloaded = NoArchive /\ extracted = NoArchive /\ files = NoFiles
  /\ error = NoError /\ failureMessage = NoFailure
  /\ outputs = NoOutputs /\ addedPath = <<>>
  /\ hasPreviousPage = FALSE /\ startCursor = NullCursor /\ releaseEdges = <<>> /\ pos = 1
  /\ found = Null /\ pageRequests = 0 /\ yielded = <<>>
  /\ netCalls = 0
  /\ cacheAtStart = [t \in Tags |-> NoEntry]
  /\ storedTag = Null
  /\ resolved = 0 /\ stores = 0 /\ succeeded = 0
  /\ triplet = <<"">> /\ matchResult = FALSE

\* findVersion(client, range) on every feed and range.
InitScan ==
  /\ Idle
  /\ feed \in Feeds
  /\ order \in {"ASC", "DESC"}
  /\ host = [arch |-> "x64", platform |-> "linux"]
  /\ pc = "fv_start"

\* The call of findVersion: the generator is created and the range bound.
StartFind ==
  /\ pc = "fv_start"
  /\ \E r \in Ranges : range' = r
  /\ pc' = "fv_request"
  /\ UNCHANGED <<envVars, cache, calls, update, cacheAtStart, stageVars, error, failureMessage, scanVars,
                 netCalls, storedTag, log, matchVars>>

NextScan == StartFind \/ RequestPage \/ NextRelease \/ PageDone

SpecScan == InitScan /\ [][NextScan]_vars

\* The scheduler runs a pending continuation: no step waits forever.
FairSpecScan == SpecScan /\ WF_vars(NextScan)

\* --------------------------------------------------------------- SpecMatch
InitMatch ==
  /\ Idle
  /\ feed = <<>>
  /\ order = "ASC"
  /\ host \in Hosts
  /\ pc = "match"

Match ==
  /\ pc = "match"
  /\ \E t \in Triplets :
       /\ triplet' = t
       /\ matchResult' = tripletMatchesSystem(t, host)
  /\ pc' = "matched"
  /\ UNCHANGED <<envVars, cache, callVars, stageVars, error, failureMessage, scanVars, netCalls,
                 storedTag, log>>

NextMatch == Match

SpecMatch == InitMatch /\ [][NextMatch]_vars


\* -------------------------------------------------------------- tool cache
\* isExplicitVersion of @actions/tool-cache: the specification is a version.
isExplicitVersion(versionSpec) == ParseVersion(versionSpec).valid

CachedVersions(c) == {t \in DOMAIN c : c[t].present}

\* evaluateVersions: the highest cached version satisfying the specification
\* (semver.satisfies with default options, so without includePrerelease).
evaluateVersions(versions, versionSpec) ==
  LET ok == {v \in versions : satisfiesNoPrerelease(v, versionSpec)}
  IN  IF ok = {} THEN Null
      ELSE CHOOSE v \in ok : \A w \in ok : compare(ParseVersion(v), ParseVersion(w)) >= 0

\* tc.find(ToolName, versionSpec): the cached directory (named by its
\* version), or Null for the empty string it returns on a miss.
find(c, versionSpec) ==
  LET version == IF isExplicitVersion(versionSpec) THEN versionSpec
                 ELSE evaluateVersions(CachedVersions(c), versionSpec)
  IN  IF version \in CachedVersions(c) THEN version ELSE Null

\* tc.cacheDir(compilerDir, ToolName, version)
cacheDir(c, content, version) == [c EXCEPT ![version] = content]

\* ---------------------------------------------------------------- manifest
LinuxGnu == [name |-> "nimskull-x86_64-linux-gnu.tar.zst", target |-> <<"x86_64", "linux", "gnu">>]
LinuxMusl == [name |-> "nimskull-x86_64-linux-musl.tar.zst", target |-> <<"x86_64", "unknown", "linux", "musl">>]
LinuxAny == [name |-> "nimskull-x86_64-linux.tar.zst", target |-> <<"x86_64", "linux">>]
WindowsZip == [name |-> "nimskull-x86_64-windows.zip", target |-> <<"x86_64", "pc", "windows", "gnu">>]
MacArm == [name |-> "nimskull-aarch64-macos.tar.zst", target |-> <<"aarch64", "apple", "darwin">>]

BinaryLists == {<<>>, <<MacArm, LinuxGnu, LinuxAny, WindowsZip>>, <<LinuxMusl, LinuxGnu>>, <<MacArm>>}

\* ReleaseManifestV0 documents a release may carry (source and sha256 are
\* never read).
Manifests == [manifestVersion : {SupportedManifestVersion, 1}, binaries : BinaryLists]

\* Mutant: the last matching element is selected.
LastMatch(binaries, h) ==
  IF \E i \in 1..Len(binaries) : tripletMatchesSystem(binaries[i].target, h)
  THEN CHOOSE i \in 1..Len(binaries) :
         /\ tripletMatchesSystem(binaries[i].target, h)
         /\ \A j \in (i + 1)..Len(binaries) : ~tripletMatchesSystem(binaries[j].target, h)
  ELSE 0

\* Array.prototype.find: the index of the first element matching, 0 if none.
FirstMatch(binaries, h) ==
  IF \E i \in 1..Len(binaries) : tripletMatchesSystem(binaries[i].target, h)
  THEN CHOOSE i \in 1..Len(binaries) :
         /\ tripletMatchesSystem(binaries[i].target, h)
         /\ \A j \in 1..(i - 1) : ~tripletMatchesSystem(binaries[j].target, h)
  ELSE 0

\* url.endsWith('.zip'); a download URL ends with the asset's name.
endsWithZip(u) == u = WindowsZip.name

\* The archives a download may deliver: the number of top-level entries,
\* whether the top-level folder holds a readable release.json, and the commit
\* release.json records.
Archives ==
  {a \in [present : {TRUE}, entries : 0..MaxEntries, releaseJson : BOOLEAN, commit : {"c1", "c2"}] :
     a.entries # 1 => (a.releaseJson /\ a.commit = "c1")}

\* Outcomes of the graphql query of urlForAsset: the asset's node, an empty
\* nodes list (the destructuring pattern then throws), a rejected query.
AssetOutcomes == {"node", "noNode", "rejected"}

\* ----------------------------------------------------------- setupCompiler
\* error.message of the caught value: an Error object carries its text, a
\* string primitive has no message property.
messageOf(value) ==
  IF value.string THEN NoMessage
  ELSE [defined |-> TRUE, kind |-> value.kind, detail |-> value.detail]

\* setup(): catch (error) { core.setFailed(error.message) }
setFailed(value) == [called |-> TRUE, message |-> messageOf(value)]

\* A value thrown out of setupCompiler: the awaited promise rejects, setup()
\* catches the value and the invocation ends failed.
Raise(value) ==
  /\ pc' = "failed"
  /\ error' = value
  /\ failureMessage' = setFailed(value)

\* throw `...`: setupCompiler, getDownloadUrl and downloadAndExtractCompiler
\* throw template strings.
Throw(kind, detail) == Raise([kind |-> kind, detail |-> detail, string |-> TRUE])

\* A rejection raised inside a library (octokit, http-client, tool-cache,
\* exec, fs, JSON) or by the runtime: an Error object.
Reject(kind, detail) == Raise([kind |-> kind, detail |-> detail, string |-> FALSE])

\* Mutant: the cache lookup of the range is ignored.
needsResolveAlways(dir, upd) == TRUE

\* if (!installDir || update)
needsResolve(dir, upd) == dir = Null \/ upd

\* Mutant: the matched version is installed again although it is cached.
needsDownloadAlways(dir) == TRUE

\* if (!installDir), after the lookup of the matched version
needsDownload(dir) == dir = Null

\* setupCompiler(client, range, update) up to its first await.
Acquire ==
  /\ pc \in {"idle", "done", "failed"}
  /\ calls < MaxCalls
  /\ \E r \in Ranges, u \in BOOLEAN :
       /\ range' = r
       /\ update' = u
       /\ installDir' = find(cache, r)
       /\ pc' = IF needsResolve(find(cache, r), u) THEN "fv_request" ELSE "readRelease"
  /\ calls' = calls + 1
  /\ cacheAtStart' = cache
  /\ release' = Null /\ targetBinary' = NoBinary /\ url' = Null
  /\ manifest' = NoManifest /\ tripletChecks' = 0 /\ lookups' = <<>>
  /\ downloaded' = NoArchive /\ extracted' = NoArchive /\ files' = NoFiles
  /\ outputs' = NoOutputs /\ addedPath' = <<>>
  /\ error' = NoError /\ failureMessage' = NoFailure
  /\ hasPreviousPage' = FALSE /\ startCursor' = NullCursor /\ releaseEdges' = <<>> /\ pos' = 1
  /\ found' = Null /\ pageRequests' = 0 /\ yielded' = <<>>
  /\ netCalls' = 0
  /\ storedTag' = Null
  /\ resolved' = IF needsResolve(find(cache, range'), update') THEN resolved + 1 ELSE resolved
  /\ UNCHANGED <<envVars, cache, stores, succeeded, matchVars>>

\* The graphql query of getReleases rejected: findVersion rejects, and so
\* does setupCompiler.
FindVersionRejected ==
  /\ pc = "fv_failed"
  /\ pc' = "failed"
  /\ failureMessage' = setFailed(error)
  /\ UNCHANGED <<envVars, cache, callVars, stageVars, error, scanVars, netCalls, storedTag, log, matchVars>>

\* findVersion returned: the not-found throw, or the lookup of the matched
\* version in the cache.
AfterFindVersion ==
  /\ pc = "fv_return"
  /\ IF found = Null
     THEN /\ Throw("ResolutionNotFound", range)
          /\ UNCHANGED <<release, installDir>>
     ELSE /\ release' = found
          /\ installDir' = find(cache, found)
          /\ pc' = IF needsDownload(find(cache, found)) THEN "manifestUrl" ELSE "readRelease"
          /\ UNCHANGED <<error, failureMessage>>
  /\ UNCHANGED <<envVars, cache, callVars, targetBinary, manifest, tripletChecks, lookups, url, downloaded, extracted, files,
                 outputs, addedPath, scanVars, netCalls, storedTag, log, matchVars>>

\* Mutant: a missing asset yields null instead of a failed destructuring.
urlForAssetNullOnMissing(o, asset) ==
  CASE o = "node"     -> [threw |-> FALSE, url |-> asset]
    [] o = "noNode"   -> [threw |-> FALSE, url |-> Null]
    [] o = "rejected" -> [threw |-> TRUE, kind |-> "TransportError", detail |-> "graphql"]

\* urlForAsset(client, repo, release, asset), given the outcome of its graphql
\* query.  The result is destructured with the pattern nodes: [{ downloadUrl }]:
\* on an empty nodes list the first element is undefined and the pattern
\* throws a TypeError.  A download URL ends with the asset's name.
urlForAsset(o, asset) ==
  CASE o = "node"     -> [threw |-> FALSE, url |-> asset]
    [] o = "noNode"   -> [threw |-> TRUE, kind |-> "AssetMissing", detail |-> asset]
    [] o = "rejected" -> [threw |-> TRUE, kind |-> "TransportError", detail |-> "graphql"]

\* getDownloadUrl: urlForAsset(client, repo, release, "manifest.json"), whose
\* result is handed to HttpClient.get.
ManifestUrl ==
  /\ pc = "manifestUrl"
  /\ \E o \in AssetOutcomes :
       LET r == urlForAsset(o, "manifest.json")
       IN  /\ lookups' = Append(lookups, [asset |-> "manifest.json", outcome |-> o])
           /\ IF r.threw THEN Reject(r.kind, r.detail)
              ELSE IF r.url = Null THEN Reject("TransportError", "url")
              ELSE pc' = "manifestGet" /\ UNCHANGED <<error, failureMessage>>
  /\ netCalls' = Saturate(netCalls, MaxRequests + 3)
  /\ UNCHANGED <<envVars, cache, callVars, installDir, release, targetBinary, manifest,
                 tripletChecks, url, downloaded, extracted, files, outputs, addedPath,
                 scanVars, storedTag, log, matchVars>>

\* Mutant: the manifest version is not checked.
versionSupportedAny(v) == TRUE

\* if (manifest.manifestVersion != SupportedManifestVersion) throw
versionSupported(v) == v = SupportedManifestVersion

\* The number of entries Array.prototype.find calls its predicate on: up to
\* and including the first match, all of them when none matches.
findEvaluations(binaries, h) ==
  IF FirstMatch(binaries, h) = 0 THEN Len(binaries) ELSE FirstMatch(binaries, h)

\* getDownloadUrl from the HTTP response on: the status check, the manifest
\* version check, the selection of the first matching binary; and
\* setupCompiler's throw when it returns null.
ManifestGet ==
  /\ pc = "manifestGet"
  /\ \E status \in {HttpOK, 404}, m \in Manifests :
       IF status # HttpOK
       THEN Throw("TransportError", "status") /\ UNCHANGED <<targetBinary, manifest, tripletChecks>>
       ELSE /\ manifest' = [present |-> TRUE, manifestVersion |-> m.manifestVersion,
                            binaries |-> m.binaries]
            /\ IF ~versionSupported(m.manifestVersion)
               THEN Throw("SchemaMismatch", m.manifestVersion) /\ UNCHANGED <<targetBinary, tripletChecks>>
               ELSE /\ tripletChecks' = tripletChecks + findEvaluations(m.binaries, host)
                    /\ IF FirstMatch(m.binaries, host) = 0
                       THEN Throw("PlatformUnsupported", "") /\ UNCHANGED targetBinary
                       ELSE /\ targetBinary' = m.binaries[FirstMatch(m.binaries, host)]
                            /\ pc' = "binaryUrl"
                            /\ UNCHANGED <<error, failureMessage>>
  /\ netCalls' = Saturate(netCalls, MaxRequests + 3)
  /\ UNCHANGED <<envVars, cache, callVars, installDir, release, lookups, url, downloaded,
                 extracted, files, outputs, addedPath, scanVars, storedTag, log, matchVars>>

\* getDownloadUrl: urlForAsset(client, repo, release, targetBinary.name); and
\* setupCompiler's "if (!url) throw".
BinaryUrl ==
  /\ pc = "binaryUrl"
  /\ \E o \in AssetOutcomes :
       LET r == urlForAsset(o, targetBinary.name)
       IN  /\ lookups' = Append(lookups, [asset |-> targetBinary.name, outcome |-> o])
           /\ IF r.threw THEN Reject(r.kind, r.detail) /\ UNCHANGED url
              ELSE IF r.url = Null THEN Throw("PlatformUnsupported", "") /\ UNCHANGED url
              ELSE url' = r.url /\ pc' = "download" /\ UNCHANGED <<error, failureMessage>>
  /\ netCalls' = Saturate(netCalls, MaxRequests + 3)
  /\ UNCHANGED <<envVars, cache, callVars, installDir, release, targetBinary, manifest,
                 tripletChecks, downloaded, extracted, files, outputs, addedPath, scanVars,
                 storedTag, log, matchVars>>

\* downloadAndExtractCompiler: tc.downloadTool(url) and the format dispatch.
Download ==
  /\ pc = "download"
  /\ \/ \E a \in Archives :
          /\ downloaded' = a
          /\ pc' = IF endsWithZip(url) THEN "extractZip" ELSE "unzstd"
          /\ UNCHANGED <<error, failureMessage>>
     \/ Reject("TransportError", "download") /\ UNCHANGED downloaded
  /\ netCalls' = Saturate(netCalls, MaxRequests + 3)
  /\ UNCHANGED <<envVars, cache, callVars, installDir, release, targetBinary, manifest, tripletChecks, lookups, url,
                 extracted, files, outputs, addedPath, scanVars, storedTag, log, matchVars>>

\* tc.extractZip(downloaded)
ExtractZip ==
  /\ pc = "extractZip"
  /\ \/ extracted' = downloaded /\ pc' = "readdir" /\ UNCHANGED <<error, failureMessage>>
     \/ Reject("ExtractFailed", "zip") /\ UNCHANGED extracted
  /\ UNCHANGED <<envVars, cache, callVars, installDir, release, targetBinary, manifest, tripletChecks, lookups, url,
                 downloaded, files, outputs, addedPath, scanVars, netCalls, storedTag, log, matchVars>>

\* exec.exec('unzstd', [downloaded, '-o', tarFile])
Unzstd ==
  /\ pc = "unzstd"
  /\ \/ pc' = "extractTar" /\ UNCHANGED <<error, failureMessage>>
     \/ Reject("ExtractFailed", "unzstd")
  /\ UNCHANGED <<envVars, cache, callVars, stageVars, scanVars, netCalls, storedTag, log, matchVars>>

\* tc.extractTar(tarFile, undefined, ['x'])
ExtractTar ==
  /\ pc = "extractTar"
  /\ \/ extracted' = downloaded /\ pc' = "readdir" /\ UNCHANGED <<error, failureMessage>>
     \/ Reject("ExtractFailed", "tar") /\ UNCHANGED extracted
  /\ UNCHANGED <<envVars, cache, callVars, installDir, release, targetBinary, manifest, tripletChecks, lookups, url,
                 downloaded, files, outputs, addedPath, scanVars, netCalls, storedTag, log, matchVars>>

\* Mutant: the first entry is picked whenever there is one.
layoutOkFirstEntry(n) == n >= 1

\* Mutant: an archive without a top-level entry passes the check.
layoutOkAtMostOne(n) == n <= 1

\* if (files.length !== 1) throw
layoutOk(n) == n = 1

\* fs.readdir(result) and the single-folder check.
Readdir ==
  /\ pc = "readdir"
  /\ files' = extracted.entries
  /\ IF layoutOk(extracted.entries)
     THEN pc' = "cacheDir" /\ UNCHANGED <<error, failureMessage>>
     ELSE Throw("ArchiveLayoutViolation", extracted.entries)
  /\ UNCHANGED <<envVars, cache, callVars, installDir, release, targetBinary, manifest, tripletChecks, lookups, url,
                 downloaded, extracted, outputs, addedPath, scanVars, netCalls, storedTag, log, matchVars>>

\* installDir = await tc.cacheDir(compilerDir, ToolName, release.tag)
CacheDir ==
  /\ pc = "cacheDir"
  /\ cache' = cacheDir(cache, [present |-> TRUE, version |-> release, commit |-> extracted.commit,
                               releaseJson |-> extracted.releaseJson], release)
  /\ storedTag' = release
  /\ installDir' = release
  /\ pc' = "readRelease"
  /\ stores' = stores + 1
  /\ UNCHANGED <<envVars, callVars, release, targetBinary, manifest, tripletChecks, lookups, url, downloaded, extracted,
                 files, outputs, addedPath, error, failureMessage, scanVars, netCalls, resolved, succeeded, matchVars>>

\* path.join(installDir, 'bin')
join(dir, name) == <<dir, name>>

\* The read of release.json in installDir, addPath and the outputs.
ReadRelease ==
  /\ pc = "readRelease"
  /\ IF cache[installDir].releaseJson
     THEN LET binDir == join(installDir, "bin")
          IN  /\ addedPath' = Append(addedPath, binDir)
              /\ outputs' = ("path" :> installDir @@ "binPath" :> binDir
                             @@ "version" :> cache[installDir].version
                             @@ "commit" :> cache[installDir].commit)
              /\ pc' = "done"
              /\ succeeded' = succeeded + 1
              /\ UNCHANGED <<error, failureMessage>>
     ELSE Reject("ReleaseJsonUnreadable", installDir) /\ UNCHANGED <<outputs, addedPath, succeeded>>
  /\ UNCHANGED <<envVars, cache, callVars, installDir, release, targetBinary, manifest,
                 tripletChecks, lookups, url, downloaded, extracted, files, scanVars,
                 netCalls, storedTag, resolved, stores, matchVars>>

\* -------------------------------------------------------------------- Spec
\* Feeds of the pipeline: the first n releases of one history.
History == <<"0.1.0-dev.1", "0.1.0-dev.2", "nightly", "0.1.0-dev.3", "0.1.0", "0.2.0-dev.1",
            "0.2.0-dev.2">>

PipelineFeeds == {SubSeq(History, 1, n) : n \in 0..Min(MaxFeed, Len(History))}

PipelineHosts == {[arch |-> "x64", platform |-> "linux"], [arch |-> "x64", platform |-> "win32"]}

Init ==
  /\ Idle
  /\ feed \in PipelineFeeds
  /\ order \in {"ASC", "DESC"}
  /\ host \in PipelineHosts
  /\ pc = "idle"

Next ==
  \/ Acquire
  \/ RequestPage
  \/ NextRelease
  \/ PageDone
  \/ FindVersionRejected
  \/ AfterFindVersion
  \/ ManifestUrl
  \/ ManifestGet
  \/ BinaryUrl
  \/ Download
  \/ ExtractZip
  \/ Unzstd
  \/ ExtractTar
  \/ Readdir
  \/ CacheDir
  \/ ReadRelease

Spec == Init /\ [][Next]_vars


\* ---------------------------------------------------------------- SpecIdem
\* The version a caller asks for by its exact tag.
ExactTag == "0.1.0-dev.1"

InFeed(f, name) == \E i \in 1..Len(f) : f[i] = name

\* Two invocations setupCompiler(ExactTag, false), one after the other, from
\* an empty cache and a feed that holds the tag.
InitIdem ==
  /\ Init
  /\ InFeed(feed, ExactTag)

AcquireExact ==
  /\ calls < 2
  /\ range' = ExactTag
  /\ update' = FALSE
  /\ Acquire

NextIdem ==
  \/ AcquireExact
  \/ RequestPage
  \/ NextRelease
  \/ PageDone
  \/ FindVersionRejected
  \/ AfterFindVersion
  \/ ManifestUrl
  \/ ManifestGet
  \/ BinaryUrl
  \/ Download
  \/ ExtractZip
  \/ Unzstd
  \/ ExtractTar
  \/ Readdir
  \/ CacheDir
  \/ ReadRelease

SpecIdem == InitIdem /\ [][NextIdem]_vars

\* Every pending continuation runs, and the second invocation follows the
\* first.
FairSpecIdem == SpecIdem /\ WF_vars(NextIdem)

\* ------------------------------------------------------------------ claims
\* The fatal conditions of the error taxonomy.
FatalKinds == {"ResolutionNotFound", "PlatformUnsupported", "SchemaMismatch",
               "TransportError", "AssetMissing", "ArchiveLayoutViolation"}

\* C1: the cache store runs only after the download completed, the
\* extraction completed and the layout check found exactly one top-level
\* entry; and when an invocation ends in one of the fatal conditions the
\* cache is what it was when the invocation began.
C1_StoreOnlyAfterValidation ==
  /\ storedTag # Null => downloaded.present /\ extracted.present /\ files = 1
  /\ pc = "cacheDir" => downloaded.present /\ extracted.present /\ files = 1
  /\ (pc = "failed" /\ error.kind \in FatalKinds) => cache = cacheAtStart

\* C1 witness: an invocation has stored a validated archive.
C1_Witness ==
  /\ storedTag # Null /\ cache[storedTag].present /\ ~cacheAtStart[storedTag].present
  /\ files = 1

\* C2: two invocations setupCompiler(ExactTag, false) from an empty cache
\* complete with one findVersion resolution and one cache store in total, the
\* second without any network request (unless the network, the manifest or
\* the archive fails an invocation).
C2_Idempotent ==
  <>(\/ pc = "failed"
     \/ /\ calls = 2 /\ pc = "done"
        /\ resolved = 1 /\ stores = 1 /\ netCalls = 0)

\* C3: when the lookup of the range hits the cache and no update is asked
\* for, the invocation issues no network request: no release page query, no
\* asset URL lookup, no manifest fetch, no download.
C3_CacheHitNoNetwork ==
  (calls > 0 /\ ~update /\ find(cacheAtStart, range) # Null) =>
     /\ netCalls = 0 /\ pageRequests = 0
     /\ pc \in {"readRelease", "done", "failed"}
     /\ release = Null /\ url = Null /\ ~downloaded.present
     /\ installDir = find(cacheAtStart, range)

\* C3 witness: a finished invocation that was answered from the cache.
C3_Witness ==
  /\ calls > 0 /\ ~update /\ find(cacheAtStart, range) # Null
  /\ pc = "done" /\ netCalls = 0

\* C4: entries that were in the cache when an invocation began are never
\* changed; a store only creates an entry for a version that was absent; and
\* an update whose resolved version is cached downloads, extracts and stores
\* nothing.
C4_NoOverwrite ==
  /\ \A t \in Tags : cacheAtStart[t].present => cache[t] = cacheAtStart[t]
  /\ storedTag # Null => ~cacheAtStart[storedTag].present
  /\ (release # Null /\ cacheAtStart[release].present) =>
       /\ ~downloaded.present /\ ~extracted.present /\ storedTag = Null
       /\ url = Null
       /\ pc \in {"readRelease", "done", "failed"}

\* C4 witness: an update resolved to a version that was already cached.
C4_Witness ==
  /\ update /\ release # Null /\ cacheAtStart[release].present
  /\ pc = "done" /\ cache = cacheAtStart

AllValid(f) == \A i \in 1..Len(f) : ParseVersion(f[i]).valid

\* C5: the scanner yields the releases strictly newest-created-first, across
\* and within pages, and findVersion("*") returns the newest tag of every
\* non-empty feed (of semver tags).
C5_NewestFirst ==
  /\ \A i, j \in 1..Len(yielded) :
       i < j => Created(feed, yielded[i]) > Created(feed, yielded[j])
  /\ (pc = "fv_return" /\ range = "*" /\ feed # <<>> /\ AllValid(feed)) =>
       found = feed[Len(feed)]

\* C6: findVersion returns a release satisfying the range (pre-releases
\* included) such that no newer release of the feed satisfies it, and returns
\* null only when no release satisfies it.
C6_NewestSatisfying ==
  pc = "fv_return" =>
    IF found = Null
    THEN \A i \in 1..Len(feed) : ~satisfies(feed[i], range)
    ELSE /\ satisfies(found, range)
         /\ \A i \in 1..Len(feed) :
              satisfies(feed[i], range) => i <= Created(feed, found)

\* C7: findVersion terminates on every finite feed: it returns a release or
\* null (or the query rejects).
C7_Terminates == <>(pc \in {"fv_return", "fv_failed"})

FirstPage == PageEdges(Connection(feed, order), NullCursor)

\* C8: when a release of the first page satisfies the range, findVersion
\* issues exactly one page request.
C8_OneRequest ==
  (range # Null /\ \E i \in 1..Len(FirstPage) : satisfies(FirstPage[i], range)) =>
     /\ pageRequests <= 1
     /\ pc = "fv_return" => (pageRequests = 1 /\ found # Null)

\* C8 witness: a feed of two pages whose first page satisfied the range.
C8_Witness ==
  /\ pc = "fv_return" /\ found # Null /\ pageRequests = 1
  /\ Len(feed) > PageSize /\ hasPreviousPage

\* The operating-system segment of a triplet arch[-vendor][-os[-env]], and
\* the environment segment that follows it.
OsIndex(t) == IF Len(t) >= 2 /\ t[2] \in OsSegments THEN 2
              ELSE IF Len(t) >= 3 /\ t[3] \in OsSegments THEN 3
              ELSE 0

OsOf(t) == IF OsIndex(t) = 0 THEN Undefined ELSE t[OsIndex(t)]

EnvOf(t) == IF OsIndex(t) = 0 THEN Undefined ELSE At(t, OsIndex(t) + 1)

\* C9: a triplet whose OS segment is linux or windows and is followed by an
\* environment segment matches only when that segment contains "gnu",
\* whatever the vendor segment: x86_64-unknown-linux-musl is rejected on an
\* x64 Linux host.
C9_AbiFilter ==
  (pc = "matched" /\ matchResult /\ OsOf(triplet) \in {"linux", "windows"}
     /\ EnvOf(triplet) # Undefined) => Matches(EnvOf(triplet), "gnu")

\* C10: a match of a triplet whose OS segment is darwin or macosx implies a
\* macOS host, of linux a Linux host, of windows a Windows host, whether the
\* vendor segment is absent, known or unrecognised.
C10_OsImpliesPlatform ==
  (pc = "matched" /\ matchResult) =>
     /\ OsOf(triplet) \in {"darwin", "macosx"} => host.platform = "darwin"
     /\ OsOf(triplet) = "linux" => host.platform = "linux"
     /\ OsOf(triplet) = "windows" => host.platform = "win32"

\* C11: the architecture is a hard gate of the triplet matcher: a match
\* implies that the host architecture is arm, arm64 or x64 and that the first
\* segment contains "arm", is "aarch64" or is "x86_64" respectively; the empty
\* triplet, a triplet with an empty first segment and every triplet on another
\* host architecture never match (a riscv64 triplet matches no host).
C11_ArchGate ==
  (pc = "matched" /\ matchResult) =>
     /\ host.arch \in {"arm", "arm64", "x64"}
     /\ host.arch = "arm" => Matches(triplet[1], "arm")
     /\ host.arch = "arm64" => triplet[1] = "aarch64"
     /\ host.arch = "x64" => triplet[1] = "x86_64"
     /\ triplet # <<"">>
     /\ triplet[1] \notin {"", "riscv64"}

\* C11 witness: an arm host matched a triplet whose architecture contains "arm".
C11_Witness ==
  /\ pc = "matched" /\ matchResult
  /\ host.arch = "arm" /\ triplet[1] = "armv7" /\ Len(triplet) > 1

X64Darwin == [arch |-> "x64", platform |-> "darwin"]

\* C12: vendor exclusivity: a triplet whose second segment is pc never
\* matches a macOS host and one whose second segment is apple matches only a
\* macOS host; on an x64 macOS host x86_64-pc-windows-gnu is rejected and
\* x86_64-apple-macosx accepted.
C12_VendorExclusive ==
  pc = "matched" =>
     /\ (matchResult /\ At(triplet, 2) = "pc") => host.platform # "darwin"
     /\ (matchResult /\ At(triplet, 2) = "apple") => host.platform = "darwin"
     /\ (host = X64Darwin /\ triplet = <<"x86_64", "pc", "windows", "gnu">>) => ~matchResult
     /\ (host = X64Darwin /\ triplet = <<"x86_64", "apple", "macosx">>) => matchResult

\* C12 witness: the x64 macOS host accepted x86_64-apple-macosx.
C12_Witness ==
  /\ pc = "matched" /\ matchResult
  /\ host = X64Darwin /\ triplet = <<"x86_64", "apple", "macosx">>

\* C13: when the manifest's manifestVersion is not the supported version,
\* getDownloadUrl fails with the schema-mismatch error before any selection
\* of a binary: tripletMatchesSystem is evaluated on no entry and no asset
\* URL lookup for a binary is issued.
C13_SchemaBeforeSelection ==
  (manifest.present /\ manifest.manifestVersion # SupportedManifestVersion) =>
     /\ pc = "failed"
     /\ error.kind = "SchemaMismatch" /\ error.detail = manifest.manifestVersion
     /\ tripletChecks = 0
     /\ targetBinary = NoBinary /\ url = Null
     /\ \A i \in 1..Len(lookups) : lookups[i].asset = "manifest.json"

\* C13 witness: a manifest of version 1 that lists a binary for the host was
\* refused.
C13_Witness ==
  /\ manifest.present /\ manifest.manifestVersion = 1
  /\ FirstMatch(manifest.binaries, host) # 0
  /\ pc = "failed" /\ error.kind = "SchemaMismatch"

\* C14: when the feed has no asset of the name the resolver asks for (the
\* manifest itself, or the binary the manifest names), the resolver raises an
\* error; it does not return null, so the invocation never ends with "no
\* prebuilt binaries for the current platform" for that reason.
C14_MissingAssetIsError ==
  \A i \in 1..Len(lookups) :
     lookups[i].outcome = "noNode" =>
        /\ pc = "failed"
        /\ error.kind = "AssetMissing"
        /\ error.detail = lookups[i].asset
        /\ url = Null /\ ~downloaded.present

\* C14 witness: the manifest selected a binary whose asset the feed does not
\* have.
C14_Witness ==
  /\ targetBinary # NoBinary
  /\ \E i \in 1..Len(lookups) :
        lookups[i].asset = targetBinary.name /\ lookups[i].outcome = "noNode"
  /\ pc = "failed" /\ error.kind = "AssetMissing"

\* C15: after the extraction of a zip or of a tar-family archive, when the
\* extracted directory holds zero, two or more top-level entries the
\* invocation fails with the layout-violation error that carries the observed
\* count; no entry is picked as the compiler directory and nothing is stored
\* in the cache.
C15_LayoutViolation ==
  (files # NoFiles /\ files # 1) =>
     /\ pc = "failed"
     /\ error.kind = "ArchiveLayoutViolation" /\ error.detail = files
     /\ installDir = Null /\ storedTag = Null
     /\ cache = cacheAtStart

\* C15 witness: a tar-family archive with two top-level entries was refused.
C15_Witness ==
  /\ url # Null /\ ~endsWithZip(url)
  /\ extracted.present /\ extracted.entries = 2 /\ files = 2
  /\ pc = "failed" /\ error.kind = "ArchiveLayoutViolation"

\* The same for a zip archive without any top-level entry.
ZipLayoutRefused ==
  /\ url # Null /\ endsWithZip(url)
  /\ extracted.present /\ files = 0
  /\ pc = "failed" /\ error.kind = "ArchiveLayoutViolation"

\* C16: every fatal condition raised in the pipeline is caught by setup() and
\* reported through core.setFailed with exactly the text that was raised:
\* never an empty or a different message.
C16_ReportedVerbatim ==
  pc = "failed" =>
     /\ failureMessage.called
     /\ failureMessage.message.defined
     /\ failureMessage.message.kind = error.kind
     /\ failureMessage.message.detail = error.detail

\* The outputs the action's interface declares (action.yml, outputs).
DeclaredOutputs == {"path", "bin-path", "nimskull-version", "nimskull-commit"}

\* C17: when an invocation completes, through the cache or through a
\* download, the outputs path, bin-path, nimskull-version and nimskull-commit
\* are set, nimskull-version being the version recorded in the installed
\* directory's release.json, and the installed bin directory was added to
\* PATH.
C17_DeclaredOutputsSet ==
  pc = "done" =>
     /\ addedPath = <<join(installDir, "bin")>>
     /\ DeclaredOutputs \subseteq DOMAIN outputs
     /\ outputs["path"] = installDir
     /\ outputs["nimskull-version"] = cache[installDir].version

\* The indexes of the manifest's binaries whose target matches the host.
MatchingEntries == {i \in 1..Len(manifest.binaries) :
                      tripletMatchesSystem(manifest.binaries[i].target, host)}

\* C18: getDownloadUrl selects by first match in manifest order: the binary
\* whose URL it returns is the lowest-index entry whose target matches the
\* host, even when later entries match too; when no entry matches it returns
\* null, which setupCompiler reports as "no prebuilt binaries", and no binary
\* asset is looked up.
C18_FirstMatch ==
  (manifest.present /\ manifest.manifestVersion = SupportedManifestVersion) =>
     IF MatchingEntries = {}
     THEN /\ pc = "failed" /\ error.kind = "PlatformUnsupported"
          /\ targetBinary = NoBinary /\ url = Null
          /\ \A i \in 1..Len(lookups) : lookups[i].asset = "manifest.json"
     ELSE /\ \E i \in MatchingEntries :
               /\ \A j \in MatchingEntries : i <= j
               /\ targetBinary = manifest.binaries[i]
          /\ url # Null => url = targetBinary.name

\* C18 witness: the URL of the first of two matching entries was returned.
C18_Witness ==
  /\ manifest.present /\ manifest.manifestVersion = SupportedManifestVersion
  /\ Cardinality(MatchingEntries) >= 2
  /\ \E i \in MatchingEntries : i > 1 /\ targetBinary = manifest.binaries[i]
  /\ url = targetBinary.name

\* The architecture and the vendor constraints pass for the triplet.
ArchAndVendorPass(t, h) ==
  /\ t[1] # ""
  /\ \/ h.arch = "arm" /\ Matches(t[1], "arm")
     \/ h.arch = "arm64" /\ t[1] = "aarch64"
     \/ h.arch = "x64" /\ t[1] = "x86_64"
  /\ ~(At(t, 2) = "pc" /\ h.platform = "darwin")
  /\ ~(At(t, 2) = "apple" /\ h.platform # "darwin")

\* The segment the OS switch looks at: the one after a pc or apple vendor,
\* else the second.
ScannedOs(t) == IF At(t, 2) \in {"pc", "apple"} THEN At(t, 3) ELSE At(t, 2)

\* C19: a triplet that is only an architecture segment matching the host
\* architecture matches, and once the architecture and vendor constraints
\* passed an unrecognised or absent operating-system segment never rejects
\* ("x86_64" matches an x64 Linux host).
C19_Permissive ==
  pc = "matched" =>
     /\ (Len(triplet) = 1 /\ ArchAndVendorPass(triplet, host)) => matchResult
     /\ (ArchAndVendorPass(triplet, host)
           /\ ScannedOs(triplet) \notin {"darwin", "macosx", "linux", "windows"}) => matchResult
     /\ (triplet = <<"x86_64">> /\ host = [arch |-> "x64", platform |-> "linux"]) => matchResult

\* C19 witness: the architecture-only triplet x86_64 matched an x64 Linux host.
C19_Witness ==
  /\ pc = "matched" /\ matchResult
  /\ triplet = <<"x86_64">> /\ host = [arch |-> "x64", platform |-> "linux"]

\* A triplet with the unrecognised OS freebsd matched as well.
UnrecognisedOsMatched ==
  /\ pc = "matched" /\ matchResult
  /\ triplet = <<"x86_64", "pc", "freebsd">>
  /\ host = [arch |-> "x64", platform |-> "linux"]

\* C20: a release whose name is not a parseable semver version is skipped by
\* findVersion without raising: the scan goes on with the releases that
\* follow and returns the first of them that satisfies the range, or null
\* when none of the releases it was given does.
C20_InvalidTagSkipped ==
  /\ error.kind \in {Null, "TransportError"}
  /\ (pc = "fv_return" /\ found # Null) =>
        /\ ParseVersion(found).valid
        /\ yielded # <<>> /\ yielded[Len(yielded)] = found
        /\ \A i \in 1..(Len(yielded) - 1) :
              ~ParseVersion(yielded[i]).valid \/ ~satisfies(yielded[i], range)
  /\ (pc = "fv_return" /\ found = Null) =>
        \A i \in 1..Len(yielded) :
           ~ParseVersion(yielded[i]).valid \/ ~satisfies(yielded[i], range)

\* C20 witness: findVersion returned a release that was yielded after an
\* unparseable name.
C20_Witness ==
  /\ pc = "fv_return" /\ found # Null /\ error = NoError
  /\ \E i \in 1..(Len(yielded) - 1) : ~ParseVersion(yielded[i]).valid

\* findVersion returned null on a feed that holds an unparseable name.
InvalidOnlyNotFound ==
  /\ pc = "fv_return" /\ found = Null /\ error = NoError
  /\ \E i \in 1..Len(yielded) : ~ParseVersion(yielded[i]).valid

\* The number of times the generator yielded the release name.
TimesYielded(name) == Cardinality({j \in 1..Len(yielded) : yielded[j] = name})

\* C21: within one run of the scanner every page request after the first
\* passes the cursor the preceding page returned, so that no release is
\* yielded more than once, and every release of a feed that was consumed to
\* its end was yielded exactly once.
C21_CursorAdvances ==
  /\ (pc = "fv_request" /\ pageRequests >= 1) => queryCursor(startCursor) = startCursor
  /\ \A i \in 1..Len(feed) : TimesYielded(feed[i]) <= 1
  /\ (pc = "fv_return" /\ found = Null) =>
        \A i \in 1..Len(feed) : TimesYielded(feed[i]) = 1

====
